---------------------------- MODULE Spec2Model ----------------------------
(***************************************************************************)
(* A model of the observable store of src/src/ReactObservableStore.js:     *)
(* the private `storage` and `observers` objects, the operations init,     *)
(* update, set, get, subscribe, unsubscribe and the notification fan-out   *)
(* `fire`, together with the lodash helpers (assign, set, get, omit) and   *)
(* the JSON round trip of sanitizeData that decide what they store.        *)
(*                                                                         *)
(* JavaScript values are tagged records [t |-> kind, v |-> content].       *)
(* Objects hold their own enumerable properties as a function from         *)
(* property names to values; the registry objects, whose key order         *)
(* Object.keys exposes, are ordered lists of <<key, value>> entries.       *)
(***************************************************************************)
EXTENDS Integers, Sequences, FiniteSets, TLC

VARIABLES
    storage,    \* own properties of `storage`: namespace -> value
    observers,  \* own properties of `observers`: namespace -> ordered registry
    objectCtor, \* own enumerable properties added to the global Object function
    stack,      \* the fire cycles in progress, innermost last
    last,       \* the most recent step: the call made and what it gave back
    outer,      \* the outermost call: the operation and its namespace
    status,     \* of the outermost call: "idle", "running", "returned", "threw"
    log,        \* the callback invocations made during the outermost call
    nested,     \* the calls made from inside callbacks during the outermost call
    declared,   \* the namespaces of the data of the last successful init
    revoked,    \* the registrations unsubscribe removed, not subscribed again
    stale,      \* the registrations made before the last successful init
    calls,      \* the number of outermost calls made so far
    shared,     \* the paths of storage that hold an object the caller passed in
    during      \* the registrations made from inside a callback

vars ==
    <<storage, observers, objectCtor, stack, last, outer, status, log, nested,
      declared, revoked, stale, calls, shared, during>>

---------------------------------------------------------------------------
(* Bounds *)

\* The number of calls the application makes, when its callbacks do not call
\* the store and when they do.
MaxCalls == 5

MaxCallsRe == 4

\* The number of calls the application makes when it stores data of every kind.
MaxCallsData == 3

\* The number of store calls callbacks may make during one outermost call.
MaxNested == 1

---------------------------------------------------------------------------
(* JavaScript values *)

EmptyMap == [k \in {} |-> 0]

Undefined == [t |-> "undefined", v |-> 0]
Null == [t |-> "null", v |-> 0]
NaN == [t |-> "nan", v |-> 0]
Infinity == [t |-> "infinity", v |-> 0]
Num(n) == [t |-> "number", v |-> n]
Bool(b) == [t |-> "boolean", v |-> b]
Str(s) == [t |-> "string", v |-> s]
Func(f) == [t |-> "function", v |-> f]
Obj(m) == [t |-> "object", v |-> m]

\* The global Object function, which every plain object inherits as its
\* `constructor` property; its added properties live in objectCtor.
ObjectCtor == Func("Object")

\* The names a plain object inherits from Object.prototype (one is modelled).
ProtoNames == {"constructor"}

\* The names of array indices, in order.
IndexName == <<"0", "1", "2">>

IndexNames == {IndexName[i] : i \in 1..Len(IndexName)}

IndexOf(k) == CHOOSE i \in 1..Len(IndexName) : IndexName[i] = k

\* An array with the elements of the sequence s.
ArrOf(s) ==
    [t |-> "array",
     v |-> [k \in {IndexName[i] : i \in 1..Len(s)} |-> s[IndexOf(k)]]]

\* The internal slot of a wrapper object made by Object(primitive).
Slot == "[[PrimitiveValue]]"

Boxed(p, m) == [t |-> "boxed", v |-> [k \in DOMAIN m \cup {Slot} |-> IF k = Slot THEN p ELSE m[k]]]

\* !x is false
Truthy(x) ==
    CASE x.t \in {"undefined", "null", "nan"} -> FALSE
      [] x.t = "number" -> x.v # 0
      [] x.t = "boolean" -> x.v
      [] x.t = "string" -> x.v # <<>>
      [] OTHER -> TRUE

\* lodash isObject, and `x === Object(x)`
IsObject(x) == x.t \in {"object", "array", "function", "boxed"}

---------------------------------------------------------------------------
(* Ordered property lists: the registry objects *)

\* Object.keys that misses the last key.
OKeysShort(o) == [i \in 1..(Len(o) - 1) |-> o[i][1]]

OKeys(o) == [i \in 1..Len(o) |-> o[i][1]]

OKeySet(o) == {o[i][1] : i \in 1..Len(o)}

OHas(o, k) == k \in OKeySet(o)

OGet(o, k) == o[CHOOSE i \in 1..Len(o) : o[i][1] = k][2]

\* o[k] = x: an existing key keeps its place, a new one goes last.
OPut(o, k, x) ==
    IF OHas(o, k)
    THEN [i \in 1..Len(o) |-> IF o[i][1] = k THEN <<k, x>> ELSE o[i]]
    ELSE Append(o, <<k, x>>)

\* omit that omits nothing.
ODelNone(o, k) == o

ODel(o, k) == SelectSeq(o, LAMBDA e : e[1] # k)

OMap(o) == [k \in OKeySet(o) |-> OGet(o, k)]


---------------------------------------------------------------------------
(* Properties: own, inherited, assigned *)

\* The own enumerable properties of x, with cp the properties added to the
\* global Object function. A string has its characters, other primitives none.
Props(x, cp) ==
    CASE x.t \in {"object", "array"} -> x.v
      [] x.t = "boxed" -> [k \in DOMAIN x.v \ {Slot} |-> x.v[k]]
      [] x = ObjectCtor -> OMap(cp)
      [] x.t = "string" ->
            [k \in {IndexName[i] : i \in 1..Len(x.v)} |-> Str(<<x.v[IndexOf(k)]>>)]
      [] OTHER -> EmptyMap

\* x[k] for x other than null and undefined: the own property, or the one
\* inherited from the prototype, or undefined.
Lookup(x, cp, k) ==
    IF k \in DOMAIN Props(x, cp) THEN Props(x, cp)[k]
    ELSE IF k \in ProtoNames
         THEN IF x.t = "object" THEN ObjectCtor ELSE Func("Builtin")
         ELSE Undefined

\* object[key] = value, on an object; the result is the object and the
\* properties of the global Object function afterwards.
PutProp(x, cp, k, value) ==
    IF x = ObjectCtor
    THEN [val |-> x, cp |-> OPut(cp, k, value)]
    ELSE [val |-> [t |-> x.t, v |-> (k :> value) @@ x.v], cp |-> cp]

RECURSIVE PutAll(_, _, _)
\* Every property of the map m put on the ordered list o. The order in which
\* one source's keys arrive is not kept by the unordered maps of JSON data.
PutAll(o, m, ks) ==
    IF ks = {} THEN o
    ELSE LET k == CHOOSE x \in ks : TRUE
         IN  PutAll(OPut(o, k, m[k]), m, ks \ {k})

\* Object(x): x itself when it is an object, else a wrapper around it.
ToObject(x) ==
    CASE IsObject(x) -> x
      [] x.t \in {"undefined", "null"} -> Obj(EmptyMap)
      [] OTHER -> Boxed(x, Props(x, <<>>))

\* An assign in which the properties the target has already win.
AssignKeep(target, source, cp) ==
    LET src == IF source.t \in {"undefined", "null"} THEN EmptyMap
               ELSE Props(source, cp)
        obj == ToObject(target)
    IN  [val |-> [t |-> obj.t, v |-> obj.v @@ src], cp |-> cp]

\* lodash assign(target, source): the own enumerable properties of source are
\* copied onto Object(target), which is returned.
Assign(target, source, cp) ==
    LET src == IF source.t \in {"undefined", "null"} THEN EmptyMap
               ELSE Props(source, cp)
        obj == ToObject(target)
    IN  IF obj = ObjectCtor
        THEN [val |-> obj, cp |-> PutAll(cp, src, DOMAIN src)]
        ELSE [val |-> [t |-> obj.t, v |-> src @@ obj.v], cp |-> cp]

---------------------------------------------------------------------------
(* sanitizeData: JSON.stringify, JSON.parse, cloneDeep *)

\* JSON.stringify gives undefined for these, and drops them from objects.
Serializable(x) == x.t \notin {"undefined", "function"}

RECURSIVE Json(_)
\* JSON.parse(JSON.stringify(x)) for a serializable x.
Json(x) ==
    CASE x.t \in {"nan", "infinity"} -> Null
      [] x.t = "object" ->
            Obj([k \in {j \in DOMAIN x.v : Serializable(x.v[j])} |-> Json(x.v[k])])
      [] x.t = "array" ->
            [t |-> "array",
             v |-> [k \in DOMAIN x.v \cap IndexNames |->
                        IF Serializable(x.v[k]) THEN Json(x.v[k]) ELSE Null]]
      [] x.t = "boxed" -> Json(x.v[Slot])
      [] OTHER -> x

\* A sanitizeData that hands back the caller's own object.
sanitizeDataSame(data) == [ok |-> Serializable(data), val |-> data, fresh |-> FALSE]

\* sanitizeData(data): JSON.parse(undefined) throws a SyntaxError. What
\* JSON.parse builds and cloneDeep copies is new: no object of the result is
\* an object of the caller's (fresh).
sanitizeData(data) ==
    IF Serializable(data)
    THEN [ok |-> TRUE, val |-> Json(data), fresh |-> TRUE]
    ELSE [ok |-> FALSE, val |-> Undefined, fresh |-> TRUE]

\* The path q leads to the path p or to a container above it.
IsPrefix(q, p) == Len(q) <= Len(p) /\ SubSeq(p, 1, Len(q)) = q

\* The shared paths left when the paths written are given new values.
Unshare(sh, written) == {p \in sh : \A q \in written : ~IsPrefix(q, p)}

\* The paths, under prefix, at which assign puts an object of the caller's:
\* the containers that are properties of what sanitizeData gave.
Owned(san, prefix) ==
    IF san.fresh THEN {}
    ELSE {prefix \o <<k>> : k \in {j \in DOMAIN Props(san.val, <<>>) :
                                        IsObject(Props(san.val, <<>>)[j])}}

---------------------------------------------------------------------------
(* Dot paths: key.split('.'), lodash set and get *)

Dot == "."

RECURSIVE Split(_)
\* key.split('.') of a key given as its dots and the runs of characters
\* between them: the segments, each one run or empty. lodash's castPath gives
\* the same segments for a key without brackets.
Split(key) ==
    IF \A i \in 1..Len(key) : key[i] # Dot THEN <<key>>
    ELSE LET d == CHOOSE i \in 1..Len(key) :
                      key[i] = Dot /\ \A j \in 1..(i - 1) : key[j] # Dot
         IN  <<SubSeq(key, 1, d - 1)>> \o Split(SubSeq(key, d + 1, Len(key)))

\* The name a segment spells: its one run of characters, or the empty name.
Name(seg) == IF seg = <<>> THEN "" ELSE seg[1]

Segments(key) == [i \in 1..Len(Split(key)) |-> Name(Split(key)[i])]

RECURSIVE SetPath(_, _, _, _, _)
\* lodash baseSet from segment i on, inside the object root: a segment that
\* holds no object gets a new container; the last one gets the value.
SetPath(root, cp, path, i, value) ==
    LET key == path[i]
        objValue == Lookup(root, cp, key)
        child == IF IsObject(objValue) THEN objValue
                 ELSE IF path[i + 1] \in IndexNames THEN ArrOf(<<>>)
                      ELSE Obj(EmptyMap)
    IN  IF i = Len(path)
        THEN PutProp(root, cp, key, value)
        ELSE LET r == SetPath(child, cp, path, i + 1, value)
             IN  PutProp(root, r.cp, key, r.val)

RECURSIVE GetPath(_, _, _, _)
\* lodash baseGet from segment i on: stops at null and undefined.
GetPath(object, cp, path, i) ==
    IF i > Len(path) THEN object
    ELSE IF object.t \in {"undefined", "null"} THEN Undefined
         ELSE GetPath(Lookup(object, cp, path[i]), cp, path, i + 1)

---------------------------------------------------------------------------
(* The inputs of the calls *)

\* The namespaces callers name: two ordinary names, and one that every
\* plain object inherits.
Names == {"a", "b"}

UpdateNames == Names \cup ProtoNames

\* The observer ids generateObserverId may give, and the callbacks.
Ids == {"o_1", "o_2"}

Fns == {"f", "g"}

One(k, x) == Obj((k :> x))

InitData ==
    {Undefined, Obj(EmptyMap), One("a", One("x", Num(1))),
     Obj(("a" :> One("x", Num(1))) @@ ("b" :> One("x", Num(1))))}

UpdateData == {One("y", NaN)}

SetKeys == {<<"a">>, <<"a", Dot, "x">>, <<"b", Dot, "x">>}

SetValues == {Num(0), Undefined}

GetKeys == {<<"a", Dot, "x">>, <<"constructor">>}

\* The inputs of the calls when callbacks call the store: one namespace,
\* which the application and its callbacks write and observe.
InitDataRe == {One("a", One("x", Num(1)))}

NamesRe == {"a"}

SetKeysRe == {<<"a">>, <<"a", Dot, "x">>}

SetValuesRe == {Num(0)}

\* The inputs when data of every kind is stored in one namespace: the kinds
\* of JSON, NaN and Infinity.
DataValues ==
    {Null, Bool(TRUE), Str(<<"b">>), Num(7), NaN, Infinity,
     ArrOf(<<Num(1)>>), ArrOf(<<ArrOf(<<>>)>>),
     One("k", Num(1)), One("k", One("k", Null))}

InitDataD == {One("a", v) : v \in DataValues}

UpdateDataD ==
    {One("x", v) : v \in DataValues} \cup
        {Null, Bool(TRUE), Str(<<"b">>), Num(7), ArrOf(<<Num(1)>>)}

SetKeysD == {<<"a", Dot, "x">>}

GetKeysD == {<<"a">>, <<"a", Dot, "x">>}

\* The property the caller writes on an object it passed in, and its value.
MutateNames == {"x"}

MutateValues == {Num(9)}

---------------------------------------------------------------------------
(* The state *)

Error(msg) == [t |-> "error", v |-> msg]

IdValue(id) == [t |-> "id", v |-> id]

NoCall ==
    [op |-> "none", ns |-> "", key |-> <<>>, data |-> Undefined, merge |-> FALSE,
     id |-> "", fn |-> "", fresh |-> FALSE, threw |-> FALSE, val |-> Undefined]

Init ==
    /\ storage = EmptyMap
    /\ observers = EmptyMap
    /\ objectCtor = <<>>
    /\ stack = <<>>
    /\ last = NoCall
    /\ outer = [op |-> "none", ns |-> ""]
    /\ status = "idle"
    /\ log = <<>>
    /\ nested = <<>>
    /\ declared = {}
    /\ revoked = {}
    /\ stale = {}
    /\ calls = 0
    /\ shared = {}
    /\ during = {}

\* storage[ns] and observers[ns]: own, inherited or undefined.
StorageAt(st, cp, ns) == Lookup(Obj(st), cp, ns)

ObserversAt(obs, cp, ns) ==
    IF ns \in DOMAIN obs THEN [def |-> TRUE, own |-> TRUE, list |-> obs[ns]]
    ELSE IF ns \in ProtoNames THEN [def |-> TRUE, own |-> FALSE, list |-> cp]
         ELSE [def |-> FALSE, own |-> FALSE, list |-> <<>>]

\* The registrations of the registry: <<namespace, id, callback>>.
Registrations(obs) ==
    UNION {{<<ns, obs[ns][i][1], obs[ns][i][2].v>> :
                i \in {j \in 1..Len(obs[ns]) : obs[ns][j][2].t = "function"}} :
           ns \in DOMAIN obs}

Top == stack[Len(stack)]

\* A call is made by the application, or by a callback that is running.
CanCall == IF stack = <<>> THEN TRUE ELSE Top.running /\ Len(nested) < MaxNested

\* The application has calls left; a callback's call is not one of them.
Budget(n) == IF stack = <<>> THEN calls < n ELSE TRUE

\* The id is new to the namespace: no observer is registered under it, and no
\* fire cycle in progress has it among the keys it still has to visit.
Unused(ns, id) ==
    /\ ~OHas(ObserversAt(observers, objectCtor, ns).list, id)
    /\ \A i \in 1..Len(stack) :
           stack[i].ns = ns => \A j \in 1..Len(stack[i].todo) : stack[i].todo[j] # id

\* The cycles in progress once the running callback has made a call.
Marked == IF stack = <<>> THEN stack ELSE [stack EXCEPT ![Len(stack)].called = TRUE]

\* The bookkeeping of a call: an outermost call starts a new log.
Called(call) ==
    /\ last' = call
    /\ outer' = IF stack = <<>> THEN [op |-> call.op, ns |-> call.ns] ELSE outer
    /\ nested' = IF stack = <<>> THEN <<>>
                 ELSE Append(nested, [op |-> call.op, ns |-> call.ns, id |-> call.id,
                                      fn |-> call.fn, fresh |-> call.fresh,
                                      threw |-> call.threw, at |-> Len(log),
                                      cycle |-> Top.born])
    /\ calls' = IF stack = <<>> THEN calls + 1 ELSE calls

LogBase == IF stack = <<>> THEN <<>> ELSE log

\* The call returns to its caller without firing.
Returns ==
    /\ stack' = Marked
    /\ status' = IF stack = <<>> THEN "returned" ELSE "running"
    /\ log' = LogBase

\* The call throws: no callback catches, so every cycle in progress ends.
Throws ==
    /\ stack' = <<>>
    /\ status' = "threw"
    /\ log' = LogBase

---------------------------------------------------------------------------
(* fire *)

\* A fire cycle whose loop has no observer left and whose callback has
\* returned is over: control is back in the call that started it.
Settle(st) ==
    IF st # <<>> /\ ~st[Len(st)].running /\ st[Len(st)].todo = <<>>
    THEN SubSeq(st, 1, Len(st) - 1)
    ELSE st

\* The `data` of the cycles in progress for ns is the namespace's object
\* itself: it shows what is written into that object, and stays behind when
\* storage[ns] is given another object.
Touch(st, ns, inPlace, value) ==
    [i \in 1..Len(st) |->
        IF st[i].ns = ns /\ st[i].alias
        THEN IF inPlace THEN [st[i] EXCEPT !.data = value]
             ELSE [st[i] EXCEPT !.alias = FALSE]
        ELSE st[i]]

\* fire(namespace, storage[namespace]) at the end of a mutation that left
\* storage st and Object properties cp: Object.keys(observers[namespace]) is
\* taken once; Object.keys(undefined) throws a TypeError.
Fire(ns, call, frames, st, cp) ==
    LET data == StorageAt(st, cp, ns)
        reg == ObserversAt(observers, cp, ns)
        frame == [ns |-> ns, data |-> data, applied |-> data,
                  alias |-> IsObject(data) /\ data # ObjectCtor,
                  todo |-> OKeys(reg.list), running |-> FALSE, called |-> FALSE,
                  born |-> IF stack = <<>> THEN 0 ELSE Len(nested) + 1]
        after == Settle(Append(frames, frame))
    IN  IF ~reg.def
        THEN Called([call EXCEPT !.threw = TRUE, !.val = Error("TypeError")]) /\ Throws
        ELSE /\ Called(call)
             /\ stack' = after
             /\ status' = IF after = <<>> THEN "returned" ELSE "running"
             /\ log' = LogBase

\* One turn of the forEach of fire: observers[namespace][id].call(scope, data).
\* The callback either returns without calling the store (and the cycle goes
\* on), or goes on to call it (enter).
FireStep(enter) ==
    /\ stack # <<>>
    /\ ~Top.running
    /\ enter => Len(nested) < MaxNested
    /\ LET id == Head(Top.todo)
           reg == ObserversAt(observers, objectCtor, Top.ns)
           cb == IF OHas(reg.list, id) THEN OGet(reg.list, id) ELSE Undefined
           call == [NoCall EXCEPT !.op = "callback", !.ns = Top.ns, !.id = id]
           after == Settle([stack EXCEPT ![Len(stack)].todo = Tail(@),
                                         ![Len(stack)].running = enter,
                                         ![Len(stack)].called = FALSE])
       IN  IF cb.t # "function"
           THEN /\ last' = [call EXCEPT !.threw = TRUE, !.val = Error("TypeError")]
                /\ stack' = <<>>
                /\ status' = "threw"
                /\ UNCHANGED log
           ELSE /\ last' = [call EXCEPT !.fn = cb.v]
                /\ log' = Append(log, [ns |-> Top.ns, id |-> id, fn |-> cb.v,
                                       val |-> Top.data, applied |-> Top.applied,
                                       cycle |-> Top.born])
                /\ stack' = after
                /\ status' = IF after = <<>> THEN "returned" ELSE "running"
    /\ UNCHANGED <<storage, observers, objectCtor, outer, nested, declared, revoked,
                   stale, calls, shared, during>>

\* The running callback, having called the store, returns to the forEach of
\* its cycle.
CallbackReturn ==
    /\ stack # <<>>
    /\ Top.running
    /\ Top.called
    /\ LET after == Settle([stack EXCEPT ![Len(stack)].running = FALSE])
       IN  /\ stack' = after
           /\ status' = IF after = <<>> THEN "returned" ELSE "running"
    /\ last' = [NoCall EXCEPT !.op = "return"]
    /\ UNCHANGED <<storage, observers, objectCtor, outer, log, nested, declared,
                   revoked, stale, calls, shared, during>>

---------------------------------------------------------------------------
(* The operations of the store *)

\* updateStore(namespace, data, merge)
updateStore(ns, d, merge) ==
    LET cur == StorageAt(storage, objectCtor, ns)
        san == sanitizeData(d)
        r == Assign(IF merge THEN cur ELSE Obj(EmptyMap), san.val, objectCtor)
        inPlace == merge /\ IsObject(cur) /\ cur # ObjectCtor
        written == IF merge THEN {<<ns, k>> : k \in DOMAIN Props(san.val, <<>>)}
                   ELSE {<<ns>>}
        call == [NoCall EXCEPT !.op = "update", !.ns = ns, !.data = d,
                               !.merge = merge]
    IN  /\ CanCall
        /\ IF ~Truthy(cur)
           THEN /\ Called([call EXCEPT !.threw = TRUE,
                                       !.val = Error("Invalid namespace")])
                /\ Throws
                /\ UNCHANGED <<storage, observers, objectCtor, declared, revoked, stale, shared,
                                 during>>
           ELSE IF ~san.ok
           THEN /\ Called([call EXCEPT !.threw = TRUE, !.val = Error("SyntaxError")])
                /\ Throws
                /\ UNCHANGED <<storage, observers, objectCtor, declared, revoked, stale, shared,
                                 during>>
           ELSE /\ storage' = (ns :> r.val) @@ storage
                /\ objectCtor' = r.cp
                /\ shared' = Unshare(shared, written) \cup Owned(san, <<ns>>)
                /\ Fire(ns, call, Touch(Marked, ns, inPlace, r.val),
                        (ns :> r.val) @@ storage, r.cp)
                /\ UNCHANGED <<observers, declared, revoked, stale, during>>

\* An init that empties the storage before it looks at its data.
initEager(data) ==
    LET san == sanitizeData(data)
        st == Assign(Obj(EmptyMap), san.val, objectCtor).val.v
        call == [NoCall EXCEPT !.op = "init", !.data = data]
    IN  /\ stack = <<>>
        /\ IF ~Truthy(data)
           THEN /\ storage' = EmptyMap
                /\ Called([call EXCEPT !.threw = TRUE,
                                       !.val = Error("Invalid store initialization")])
                /\ Throws
                /\ UNCHANGED <<observers, objectCtor, declared, revoked, stale, shared, during>>
           ELSE /\ storage' = st
                /\ observers' = [ns \in DOMAIN observers \cup DOMAIN st |->
                                    IF ns \in DOMAIN st THEN <<>> ELSE observers[ns]]
                /\ declared' = DOMAIN Props(data, objectCtor)
                /\ stale' = Registrations(observers)
                /\ shared' = Owned(san, <<>>)
                /\ during' = {r \in during : r[1] \notin DOMAIN st}
                /\ Called(call)
                /\ Returns
                /\ UNCHANGED <<objectCtor, revoked>>

\* init(data, log)
init(data) ==
    LET san == sanitizeData(data)
        st == Assign(Obj(EmptyMap), san.val, objectCtor).val.v
        call == [NoCall EXCEPT !.op = "init", !.data = data]
    IN  /\ stack = <<>>
        /\ IF ~Truthy(data)
           THEN /\ Called([call EXCEPT !.threw = TRUE,
                                       !.val = Error("Invalid store initialization")])
                /\ Throws
                /\ UNCHANGED <<storage, observers, objectCtor, declared, revoked, stale, shared,
                                 during>>
           ELSE /\ storage' = st
                /\ observers' = [ns \in DOMAIN observers \cup DOMAIN st |->
                                    IF ns \in DOMAIN st THEN <<>> ELSE observers[ns]]
                /\ declared' = DOMAIN Props(data, objectCtor)
                /\ stale' = Registrations(observers)
                /\ shared' = Owned(san, <<>>)
                /\ during' = {r \in during : r[1] \notin DOMAIN st}
                /\ Called(call)
                /\ Returns
                /\ UNCHANGED <<objectCtor, revoked>>

\* getNested(key)
getNested(key) ==
    LET found == GetPath(Obj(storage), objectCtor, Segments(key), 1)
        result == IF found = Undefined THEN Null ELSE found
        given == IF IsObject(result)
                 THEN Assign(Obj(EmptyMap), result, objectCtor).val
                 ELSE result
    IN  /\ CanCall
        /\ Called([NoCall EXCEPT !.op = "get", !.ns = Segments(key)[1],
                                 !.key = key, !.val = given])
        /\ Returns
        /\ UNCHANGED <<storage, observers, objectCtor, declared, revoked, stale, shared,
                                 during>>

\* setNested(key, value)
setNested(key, value) ==
    LET segments == Segments(key)
        ns == segments[1]
        san == sanitizeData(value)
        old == StorageAt(storage, objectCtor, ns)
        r == SetPath(Obj(storage), objectCtor, segments, 1, san.val)
        inPlace == Len(segments) > 1 /\ IsObject(old) /\ old # ObjectCtor
        call == [NoCall EXCEPT !.op = "set", !.ns = ns, !.key = key,
                               !.data = value]
    IN  /\ CanCall
        /\ IF ~san.ok
           THEN /\ Called([call EXCEPT !.threw = TRUE, !.val = Error("SyntaxError")])
                /\ Throws
                /\ UNCHANGED <<storage, observers, objectCtor, declared, revoked, stale, shared,
                                 during>>
           ELSE /\ storage' = r.val.v
                /\ objectCtor' = r.cp
                /\ shared' = Unshare(shared, {segments}) \cup
                                  (IF ~san.fresh /\ IsObject(san.val)
                                   THEN {segments} ELSE {})
                /\ Fire(ns, call, Touch(Marked, ns, inPlace, r.val.v[ns]),
                        r.val.v, r.cp)
                /\ UNCHANGED <<observers, declared, revoked, stale, during>>

\* A subscribe whose new id the fire cycles in progress go on to visit.
subscribeLive(ns, fn, id) ==
    LET reg == ObserversAt(observers, objectCtor, ns)
        call == [NoCall EXCEPT !.op = "subscribe", !.ns = ns, !.fn = fn, !.id = id,
                               !.fresh = Unused(ns, id)]
    IN  /\ CanCall
        /\ reg.own
        /\ observers' = [observers EXCEPT ![ns] = OPut(@, id, Func(fn))]
        /\ revoked' = revoked \ {<<ns, id, fn>>}
        /\ stale' = stale \ {<<ns, id, fn>>}
        /\ during' = {r \in during : ~(r[1] = ns /\ r[2] = id)} \cup
                          (IF stack # <<>> THEN {<<ns, id, fn>>} ELSE {})
        /\ Called([call EXCEPT !.val = IdValue(id)])
        /\ stack' = [i \in 1..Len(stack) |->
                        IF stack[i].ns = ns
                        THEN [Marked[i] EXCEPT !.todo = Append(@, id)]
                        ELSE Marked[i]]
        /\ status' = IF stack = <<>> THEN "returned" ELSE "running"
        /\ log' = LogBase
        /\ UNCHANGED <<storage, objectCtor, declared, shared>>

\* subscribe(namespace, fn), with id what generateObserverId gave
subscribe(ns, fn, id) ==
    LET reg == ObserversAt(observers, objectCtor, ns)
        call == [NoCall EXCEPT !.op = "subscribe", !.ns = ns, !.fn = fn, !.id = id,
                               !.fresh = Unused(ns, id)]
    IN  /\ CanCall
        /\ IF ~reg.def
           THEN /\ Called([call EXCEPT !.threw = TRUE,
                                       !.val = Error("Invalid namespace")])
                /\ Throws
                /\ UNCHANGED <<storage, observers, objectCtor, declared, revoked, stale, shared,
                                 during>>
           ELSE /\ IF reg.own
                   THEN /\ observers' = [observers EXCEPT
                                            ![ns] = OPut(@, id, Func(fn))]
                        /\ UNCHANGED objectCtor
                   ELSE /\ objectCtor' = OPut(objectCtor, id, Func(fn))
                        /\ UNCHANGED observers
                /\ revoked' = revoked \ {<<ns, id, fn>>}
                /\ stale' = stale \ {<<ns, id, fn>>}
                /\ during' = {r \in during : ~(r[1] = ns /\ r[2] = id)} \cup
                                  (IF stack # <<>> THEN {<<ns, id, fn>>} ELSE {})
                /\ Called([call EXCEPT !.val = IdValue(id)])
                /\ Returns
                /\ UNCHANGED <<storage, declared, shared>>

\* unsubscribe(namespace, id): observers[namespace] = omit(observers[namespace], [id])
unsubscribe(ns, id) ==
    LET reg == ObserversAt(observers, objectCtor, ns)
    IN  /\ CanCall
        /\ observers' = (ns :> ODel(reg.list, id)) @@ observers
        /\ revoked' = revoked \cup {r \in Registrations(observers) :
                                        r[1] = ns /\ r[2] = id}
        /\ during' = {r \in during : ~(r[1] = ns /\ r[2] = id)}
        /\ Called([NoCall EXCEPT !.op = "unsubscribe", !.ns = ns, !.id = id])
        /\ Returns
        /\ UNCHANGED <<storage, objectCtor, declared, stale, shared>>

\* The caller writes a property on the object it passed to the call that has
\* just returned. The store sees the write only where storage holds that very
\* object or a container inside it.
CallerMutates(k, value) ==
    /\ stack = <<>>
    /\ status = "returned"
    /\ last.op \in {"init", "update", "set"}
    /\ IsObject(last.data)
    /\ \E p \in shared \cup {<<>>} :
           /\ storage' = IF p = <<>> THEN storage
                         ELSE SetPath(Obj(storage), objectCtor, p \o <<k>>, 1,
                                      value).val.v
           /\ last' = [NoCall EXCEPT !.op = "mutate", !.key = p \o <<k>>,
                                     !.data = value]
    /\ UNCHANGED <<observers, objectCtor, stack, outer, status, log, nested, declared,
                   revoked, stale, calls, shared, during>>

---------------------------------------------------------------------------
(* The specification *)

\* The application calls the store; its callbacks do not.
Next ==
    \/ Budget(MaxCalls) /\ \E data \in InitData : init(data)
    \/ Budget(MaxCalls) /\ \E ns \in UpdateNames, d \in UpdateData, merge \in BOOLEAN :
            updateStore(ns, d, merge)
    \/ Budget(MaxCalls) /\ \E key \in SetKeys, value \in SetValues : setNested(key, value)
    \/ Budget(MaxCalls) /\ \E key \in GetKeys : getNested(key)
    \/ Budget(MaxCalls) /\ \E ns \in Names, fn \in Fns, id \in Ids : subscribe(ns, fn, id)
    \/ Budget(MaxCalls) /\ \E ns \in Names, id \in Ids : unsubscribe(ns, id)
    \/ FireStep(FALSE)

Spec == Init /\ [][Next]_vars

\* The application and its callbacks call the store.
NextReentrant ==
    \/ Budget(MaxCallsRe) /\ \E data \in InitDataRe : init(data)
    \/ Budget(MaxCallsRe) /\ \E ns \in NamesRe, d \in UpdateData, merge \in BOOLEAN :
            updateStore(ns, d, merge)
    \/ Budget(MaxCallsRe) /\ \E key \in SetKeysRe, value \in SetValuesRe :
            setNested(key, value)
    \/ Budget(MaxCallsRe) /\ \E ns \in NamesRe, fn \in Fns, id \in Ids :
            subscribe(ns, fn, id)
    \/ Budget(MaxCallsRe) /\ \E ns \in NamesRe, id \in Ids : unsubscribe(ns, id)
    \/ \E enter \in BOOLEAN : FireStep(enter)
    \/ CallbackReturn

SpecReentrant == Init /\ [][NextReentrant]_vars

\* The application stores data of every kind in one namespace and reads it.
NextData ==
    \/ Budget(MaxCallsData) /\ \E data \in InitDataD : init(data)
    \/ Budget(MaxCallsData) /\ \E ns \in NamesRe, d \in UpdateDataD, merge \in BOOLEAN :
            updateStore(ns, d, merge)
    \/ Budget(MaxCallsData) /\ \E key \in SetKeysD, value \in DataValues :
            setNested(key, value)
    \/ Budget(MaxCallsData) /\ \E key \in GetKeysD : getNested(key)
    \/ Budget(MaxCallsData) /\ \E ns \in NamesRe, fn \in {"f"}, id \in {"o_1"} :
            subscribe(ns, fn, id)
    \/ FireStep(FALSE)
    \/ \E k \in MutateNames, value \in MutateValues : CallerMutates(k, value)

SpecData == Init /\ [][NextData]_vars

---------------------------------------------------------------------------
(* The claims *)

\* The turns of the log in which observer id of namespace ns was invoked.
Deliveries(ns, id) == {i \in 1..Len(log) : log[i].ns = ns /\ log[i].id = id}

\* The value most recently delivered to observer id of namespace ns.
LastDelivered(ns, id) ==
    log[CHOOSE i \in Deliveries(ns, id) : \A j \in Deliveries(ns, id) : j <= i].val

\* A callback of the outermost call mutated the namespace that call fired.
MutatedByCallback ==
    \E i \in 1..Len(nested) : nested[i].op \in {"update", "set"} /\ nested[i].ns = outer.ns

\* C1: when a callback invoked by a fire on a namespace mutates that same
\* namespace, then once the outermost update or set has returned, the value
\* most recently delivered to every observer registered on the namespace is the
\* namespace's current value in storage.
C1_NoStaleDelivery ==
    (status = "returned" /\ outer.op \in {"update", "set"} /\ MutatedByCallback)
        => LET reg == ObserversAt(observers, objectCtor, outer.ns).list
           IN  \A j \in 1..Len(reg) :
                   Deliveries(outer.ns, reg[j][1]) # {}
                       => LastDelivered(outer.ns, reg[j][1])
                              = StorageAt(storage, objectCtor, outer.ns)

\* C2: when no callback calls the store, an update or set that returns has
\* invoked every callback registered on its namespace exactly once, with the
\* namespace's complete value after the mutation, and has invoked no callback
\* of another namespace.
C2_FireOncePerObserver ==
    (status = "returned" /\ outer.op \in {"update", "set"} /\ nested = <<>>)
        => LET reg == ObserversAt(observers, objectCtor, outer.ns).list
           IN  /\ \A j \in 1..Len(reg) :
                      /\ Cardinality(Deliveries(outer.ns, reg[j][1])) = 1
                      /\ \A i \in Deliveries(outer.ns, reg[j][1]) :
                             /\ log[i].fn = reg[j][2].v
                             /\ log[i].val = StorageAt(storage, objectCtor, outer.ns)
               /\ \A i \in 1..Len(log) :
                      log[i].ns = outer.ns /\ OHas(reg, log[i].id)

\* An update has returned after invoking an observer of its namespace, while
\* another namespace has an observer too.
C2_Witness ==
    /\ status = "returned"
    /\ outer.op = "update"
    /\ nested = <<>>
    /\ log # <<>>
    /\ \E r \in Registrations(observers) : r[1] # outer.ns

\* C3: once unsubscribe(ns, id) has returned, no update or set invokes the
\* callback that was registered under id on ns.
C3_NoDeliveryAfterUnsubscribe ==
    [][(last'.op = "callback" /\ ~last'.threw)
           => <<last'.ns, last'.id, last'.fn>> \notin revoked]_vars

\* A fire invokes an observer of a namespace one of whose observers was
\* unsubscribed.
C3_Witness ==
    /\ last.op = "callback"
    /\ ~last.threw
    /\ \E r \in revoked : r[1] = last.ns

\* C4: no callback subscribed before the most recent successful init is invoked
\* by an update or set made after it.
C4_ReinitDiscardsObservers ==
    \A i \in 1..Len(log) : <<log[i].ns, log[i].id, log[i].fn>> \notin stale

\* C5: subscribe(ns, fn) raises the invalid-namespace error whenever ns is not
\* a key of the storage.
C5_SubscribeUndeclaredRaises ==
    (last.op = "subscribe" /\ last.ns \notin DOMAIN storage)
        => (last.threw /\ last.val = Error("Invalid namespace"))

\* C6: the keys of the storage are the keys of the data of the most recent
\* successful init, and none before it.
C6_StorageKeysAreDeclared == DOMAIN storage = declared

\* C7: unsubscribe(ns, id) with no observer registered under id on ns does not
\* raise and leaves the storage and the registry, its set of namespaces
\* included, as they were.
C7_UnsubscribeUnknownIsNoOp ==
    [][(/\ last'.op = "unsubscribe"
        /\ IF last'.ns \in DOMAIN observers
           THEN ~OHas(observers[last'.ns], last'.id)
           ELSE TRUE)
           => (~last'.threw /\ storage' = storage /\ observers' = observers)]_vars

\* C8: update(ns, data, merge) with ns not a key of the storage raises the
\* invalid-namespace error, leaves the storage and the registry as they were
\* and invokes no callback.
C8_FailedUpdateIsInert ==
    [][(last'.op = "update" /\ last'.ns \notin DOMAIN storage)
           => /\ last'.threw
              /\ last'.val = Error("Invalid namespace")
              /\ storage' = storage
              /\ observers' = observers
              /\ stack' = <<>>
              /\ log' = <<>>]_vars

\* C9: init called with no data raises the invalid-initialization error and
\* leaves the storage and the registry as they were, before and after a
\* successful init.
C9_InitUndefinedRaises ==
    [][(last'.op = "init" /\ last'.data = Undefined)
           => /\ last'.threw
              /\ last'.val = Error("Invalid store initialization")
              /\ storage' = storage
              /\ observers' = observers]_vars

\* init with no data has thrown on a store that holds data and an observer.
C9_Witness ==
    /\ last.op = "init"
    /\ last.data = Undefined
    /\ last.threw
    /\ storage # EmptyMap
    /\ Registrations(observers) # {}

\* C10: init with the empty object raises the invalid-initialization error.
C10_InitEmptyRaises ==
    (last.op = "init" /\ last.data = Obj(EmptyMap)) => last.threw

\* C11: for a namespace whose value is an object V and for object data d,
\* update(ns, d, true) leaves the namespace with the keys of V and of
\* sanitize(d), those of sanitize(d) holding d's sanitized values and the
\* others V's; update(ns, d, false) leaves the namespace equal to sanitize(d).
C11_MergeLaw ==
    [][(/\ last'.op = "update"
        /\ ~last'.threw
        /\ last'.data.t = "object"
        /\ last'.ns \in DOMAIN storage
        /\ storage[last'.ns].t = "object")
           => LET V == storage[last'.ns].v
                  S == Json(last'.data).v
                  W == storage'[last'.ns]
              IN  /\ W.t = "object"
                  /\ IF last'.merge
                     THEN /\ DOMAIN W.v = DOMAIN V \cup DOMAIN S
                          /\ \A k \in DOMAIN S : W.v[k] = S[k]
                          /\ \A k \in DOMAIN V \ DOMAIN S : W.v[k] = V[k]
                     ELSE W.v = S]_vars

\* A merging update has returned on a namespace that keeps a key the data did
\* not have and holds a key the data had.
C11_Witness ==
    /\ last.op = "update"
    /\ last.merge
    /\ ~last.threw
    /\ last.data.t = "object"
    /\ status = "returned"
    /\ storage[last.ns].t = "object"
    /\ DOMAIN Json(last.data).v # {}
    /\ DOMAIN storage[last.ns].v \ DOMAIN Json(last.data).v # {}

C13_RoundTrip ==
    [][(last'.op = "get" /\ ~last.threw /\ status = "returned")
           => /\ (last.op = "set" /\ last'.key = last.key)
                     => last'.val = Json(last.data)
              /\ (/\ last.op = "update"
                  /\ last.data.t = "object"
                  /\ "x" \in DOMAIN last.data.v
                  /\ last'.key = <<last.ns, Dot, "x">>)
                     => last'.val = Json(last.data.v["x"])
              /\ (/\ last.op = "init"
                  /\ Len(last'.key) = 1
                  /\ last'.key[1] \in DOMAIN last.data.v)
                     => last'.val = Json(last.data.v[last'.key[1]])]_vars

\* C14: get(key) with a key whose namespace is not in the storage returns
\* null and does not raise.
C14_GetUnresolvedIsNull ==
    (last.op = "get" /\ last.ns \notin DOMAIN storage)
        => (~last.threw /\ last.val = Null)

\* C15: once init(D), update(ns, d) or set(key, v) has returned, a write by
\* the caller on an object it passed in, or on a container inside it, changes
\* nothing of the storage, and so nothing of what a later get returns.
C15_WriteIsolation ==
    [][last'.op = "mutate" => (storage' = storage /\ objectCtor' = objectCtor)]_vars

\* The caller has written on an object it passed in while the storage holds
\* an object with a container inside.
C15_Witness ==
    /\ last.op = "mutate"
    /\ \E ns \in DOMAIN storage :
           /\ IsObject(storage[ns])
           /\ \E k \in DOMAIN storage[ns].v : IsObject(storage[ns].v[k])

\* C16: when the callbacks of a fire cycle for a namespace call unsubscribe
\* on that namespace, for themselves or for another observer, invoked already
\* or not, the cycle and the update or set around it end without raising, and
\* every observer still registered has been invoked at most once.
C16_UnsubscribeDuringFire ==
    (/\ outer.op \in {"update", "set"}
     /\ nested # <<>>
     /\ \A i \in 1..Len(nested) :
            nested[i].op = "unsubscribe" /\ nested[i].ns = outer.ns)
        => /\ status # "threw"
           /\ LET reg == ObserversAt(observers, objectCtor, outer.ns).list
              IN  \A j \in 1..Len(reg) :
                      Cardinality(Deliveries(outer.ns, reg[j][1])) <= 1

\* C17: every observer invocation made by the fire cycle of a mutation
\* delivers the value the namespace had immediately after that mutation was
\* applied, also when a callback of the cycle has mutated the namespace since.
C17_DeliveryMatchesMutation ==
    \A i \in 1..Len(log) : log[i].val = log[i].applied

\* C18: update(ns, data, false) raises the invalid-namespace error only when
\* ns is not a key of the storage: on a declared namespace it succeeds whatever
\* value the namespace holds.
C18_ReplaceOnDeclaredSucceeds ==
    (last.op = "update" /\ ~last.merge /\ last.ns \in declared
                        /\ last.ns \in DOMAIN storage)
        => ~last.threw

\* C19: every successful subscribe(ns, fn) returns an id that was not
\* registered under ns, so the registrations of ns grow by exactly one and
\* none of those there before is replaced.
C19_ObserverIdIsNew ==
    [][(last'.op = "subscribe" /\ ~last'.threw)
           => LET before == observers[last'.ns]
                  after == observers'[last'.ns]
              IN  /\ ~OHas(before, last'.id)
                  /\ Len(after) = Len(before) + 1
                  /\ \A j \in 1..Len(before) : after[j] = before[j]]_vars

\* The invocations, in the fire cycle whose callback made the nested call n,
\* of the registration that call made.
InvokedInSameCycle(n) ==
    {j \in 1..Len(log) : /\ j > n.at
                         /\ log[j].cycle = n.cycle
                         /\ log[j].ns = n.ns
                         /\ log[j].id = n.id
                         /\ log[j].fn = n.fn}

\* Every observer registered from inside a callback and still registered has
\* been invoked exactly once by an update or set of its namespace that has
\* returned and whose callbacks did not call the store.
InvokedOnceByNext ==
    (status = "returned" /\ outer.op \in {"update", "set"} /\ nested = <<>>)
        => \A r \in during :
               r[1] = outer.ns
                   => /\ Cardinality(Deliveries(r[1], r[2])) = 1
                      /\ \A j \in Deliveries(r[1], r[2]) : log[j].fn = r[3]

=============================================================================
